---------------------------- MODULE Spec2Model ----------------------------
(***************************************************************************)
(* A model of the COLMAP exporter add-on for Blender:                      *)
(*   operators/colmap_exporter.py  BlenderExporterForColmap                *)
(*   ext/create_point3d.py         create_point3d_from_mesh                *)
(*                                                                         *)
(* Numbers.  The code computes in floating point; the model computes the   *)
(* same expressions exactly, on rationals with a fixed denominator:        *)
(*   - a quaternion <<w,x,y,z>> stands for (w,x,y,z)/QDen;                 *)
(*   - a rotation matrix and a translation stand for their entries         *)
(*     divided by QDen^2;                                                  *)
(*   - a colour channel c stands for c/ColDen;                             *)
(*   - a keyframe time h stands for h/2 frames.                            *)
(* Strings that the code takes apart, joins or orders are sequences of     *)
(* one-character strings.                                                  *)
(***************************************************************************)
EXTENDS Integers, Sequences, FiniteSets, TLC

(***************************************************************************)
(* Bounds of the model.                                                    *)
(***************************************************************************)
\* The denominator of quaternion components.
QDen == 2
\* Camera positions have coordinates in -MaxCoord..MaxCoord.
MaxCoord == 1
\* The most position samples and colour entries of a mesh under test.
MaxPoints == 2
\* The most cameras of a scene.
MaxCams == 2
\* The most other objects of a scene.
MaxMeshes == 2
\* The denominator of colour channels.
ColDen == 4
\* The most executions of the apply_modifier operator in a row.
MaxRuns == 3

\* An optional value is a sequence of at most one element: None, or Some(v).
None == <<>>
Some(v) == <<v>>

\* A modifier's node_group: a modifier type without the attribute, an unset
\* node group, or a node group.
NoAttr == [kind |-> "noattr"]
NoGroup == [kind |-> "none"]

(***************************************************************************)
(* Python helpers.                                                         *)
(***************************************************************************)
\* int(a / b) for b > 0: truncation toward zero.
PyInt(a, b) == IF a >= 0 THEN a \div b ELSE -((-a) \div b)

RECURSIVE SeqSum(_)
SeqSum(s) == IF s = <<>> THEN 0 ELSE Head(s) + SeqSum(Tail(s))

\* ord() of the characters the model's strings use.
Ord(c) ==
    CASE c = "-" -> 45 [] c = "." -> 46
      [] c = "0" -> 48 [] c = "1" -> 49 [] c = "2" -> 50 [] c = "3" -> 51
      [] c = "4" -> 52 [] c = "5" -> 53 [] c = "6" -> 54 [] c = "7" -> 55
      [] c = "8" -> 56 [] c = "9" -> 57
      [] c = "G" -> 71 [] c = "M" -> 77 [] c = "N" -> 78 [] c = "P" -> 80
      [] c = "_" -> 95
      [] c = "a" -> 97 [] c = "c" -> 99 [] c = "e" -> 101 [] c = "f" -> 102
      [] c = "g" -> 103 [] c = "i" -> 105 [] c = "l" -> 108 [] c = "m" -> 109
      [] c = "n" -> 110 [] c = "o" -> 111 [] c = "p" -> 112 [] c = "r" -> 114
      [] c = "s" -> 115 [] c = "t" -> 116 [] c = "u" -> 117

\* str < str: Python compares strings code point by code point.
RECURSIVE StrLess(_, _)
StrLess(a, b) ==
    IF b = <<>> THEN FALSE
    ELSE IF a = <<>> THEN TRUE
    ELSE IF Ord(Head(a)) # Ord(Head(b)) THEN Ord(Head(a)) < Ord(Head(b))
    ELSE StrLess(Tail(a), Tail(b))

\* str.startswith(prefix)
StartsWith(s, p) == Len(p) <= Len(s) /\ SubSeq(s, 1, Len(p)) = p

\* str.lower() on one character: the letters A to Z are lowered, the digits,
\* the underscore and the lower-case letters stay as they are.
LowerChar(c) ==
    CASE c = "A" -> "a" [] c = "B" -> "b" [] c = "C" -> "c" [] c = "D" -> "d"
      [] c = "E" -> "e" [] c = "F" -> "f" [] c = "G" -> "g" [] c = "H" -> "h"
      [] c = "I" -> "i" [] c = "J" -> "j" [] c = "K" -> "k" [] c = "L" -> "l"
      [] c = "M" -> "m" [] c = "N" -> "n" [] c = "O" -> "o" [] c = "P" -> "p"
      [] c = "Q" -> "q" [] c = "R" -> "r" [] c = "S" -> "s" [] c = "T" -> "t"
      [] c = "U" -> "u" [] c = "V" -> "v" [] c = "W" -> "w" [] c = "X" -> "x"
      [] c = "Y" -> "y" [] c = "Z" -> "z"
      [] OTHER -> c

Lower(s) == [i \in DOMAIN s |-> LowerChar(s[i])]

DigitChar(d) ==
    CASE d = 0 -> "0" [] d = 1 -> "1" [] d = 2 -> "2" [] d = 3 -> "3"
      [] d = 4 -> "4" [] d = 5 -> "5" [] d = 6 -> "6" [] d = 7 -> "7"
      [] d = 8 -> "8" [] d = 9 -> "9"

\* The decimal digits of n >= 0.
RECURSIVE Digits(_)
Digits(n) == IF n < 10 THEN <<DigitChar(n)>> ELSE Append(Digits(n \div 10), DigitChar(n % 10))

RECURSIVE ZeroPad(_, _)
ZeroPad(s, width) == IF Len(s) >= width THEN s ELSE ZeroPad(<<"0">> \o s, width)

\* f"{frame:04d}": sign first, then zeros up to a total width of 4.
Format04d(frame) ==
    IF frame >= 0 THEN ZeroPad(Digits(frame), 4)
    ELSE <<"-">> \o ZeroPad(Digits(-frame), 3)

\* sorted(set of ints)
RECURSIVE SortedInts(_)
SortedInts(S) ==
    IF S = {} THEN <<>>
    ELSE LET m == CHOOSE x \in S : \A y \in S : x <= y
         IN <<m>> \o SortedInts(S \ {m})


(***************************************************************************)
(* Vectors and matrices (mathutils).  A matrix is a sequence of rows.      *)
(***************************************************************************)
Dot(a, b) == a[1] * b[1] + a[2] * b[2] + a[3] * b[3]

\* Matrix @ Vector
MatVec(m, v) == <<Dot(m[1], v), Dot(m[2], v), Dot(m[3], v)>>

\* -Vector
Neg(v) == <<-v[1], -v[2], -v[3]>>

\* mathutils.Quaternion(seq): the components are taken in the order w, x, y, z.
Quaternion(seq) == [w |-> seq[1], x |-> seq[2], y |-> seq[3], z |-> seq[4]]

\* Quaternion.to_matrix(): the rotation matrix of a unit quaternion, its
\* entries scaled by QDen^2.
to_matrix(q) ==
    LET dd == QDen * QDen
    IN << << dd - 2 * (q.y * q.y + q.z * q.z),
             2 * (q.x * q.y - q.w * q.z),
             2 * (q.x * q.z + q.w * q.y) >>,
          << 2 * (q.x * q.y + q.w * q.z),
             dd - 2 * (q.x * q.x + q.z * q.z),
             2 * (q.y * q.z - q.w * q.x) >>,
          << 2 * (q.x * q.z - q.w * q.y),
             2 * (q.y * q.z + q.w * q.x),
             dd - 2 * (q.x * q.x + q.y * q.y) >> >>

(***************************************************************************)
(* BlenderExporterForColmap.get_camera_pose.  camera.rotation_quaternion   *)
(* is read after rotation_mode is switched to QUATERNION, so it is the     *)
(* camera's rotation whatever the mode was.  The result is independent of  *)
(* the mode, which the method puts back (see rotation_mode_after).         *)
(***************************************************************************)
\* A remap that keeps the host order: the axis correction is left out.
get_camera_pose_noremap(camera) ==
    LET cam_rot == Quaternion(<<camera.rotation_quaternion.w, camera.rotation_quaternion.x,
                                camera.rotation_quaternion.y, camera.rotation_quaternion.z>>)
    IN [qvec |-> <<cam_rot.w, cam_rot.x, cam_rot.y, cam_rot.z>>,
        tvec |-> Neg(MatVec(to_matrix(cam_rot), camera.location))]

\* The sign of the last component is dropped.
get_camera_pose_nosign(camera) ==
    LET cam_rot_orig == Quaternion(<<camera.rotation_quaternion.w, camera.rotation_quaternion.x,
                                     camera.rotation_quaternion.y, camera.rotation_quaternion.z>>)
        cam_rot == Quaternion(<<cam_rot_orig.x, cam_rot_orig.w, cam_rot_orig.z, cam_rot_orig.y>>)
    IN [qvec |-> <<cam_rot.w, cam_rot.x, cam_rot.y, cam_rot.z>>,
        tvec |-> Neg(MatVec(to_matrix(cam_rot), camera.location))]

\* The translation is taken with the host rotation instead of the remapped one.
get_camera_pose_hostrot(camera) ==
    LET cam_rot_orig == Quaternion(<<camera.rotation_quaternion.w, camera.rotation_quaternion.x,
                                     camera.rotation_quaternion.y, camera.rotation_quaternion.z>>)
        cam_rot == Quaternion(<<cam_rot_orig.x, cam_rot_orig.w, cam_rot_orig.z, -cam_rot_orig.y>>)
    IN [qvec |-> <<cam_rot.w, cam_rot.x, cam_rot.y, cam_rot.z>>,
        tvec |-> Neg(MatVec(to_matrix(cam_rot_orig), camera.location))]

get_camera_pose(camera) ==
    LET cam_rot_orig == Quaternion(<<camera.rotation_quaternion.w, camera.rotation_quaternion.x,
                                     camera.rotation_quaternion.y, camera.rotation_quaternion.z>>)
        cam_rot == Quaternion(<<cam_rot_orig.x, cam_rot_orig.w, cam_rot_orig.z, -cam_rot_orig.y>>)
        location == camera.location
        translation == Neg(MatVec(to_matrix(cam_rot), location))
    IN [qvec |-> <<cam_rot.w, cam_rot.x, cam_rot.y, cam_rot.z>>,
        tvec |-> <<translation[1], translation[2], translation[3]>>]

\* camera.rotation_mode when get_camera_pose returns: the backup is restored.
rotation_mode_after(camera) ==
    LET rotation_mode_backup == camera.rotation_mode
    IN rotation_mode_backup

(***************************************************************************)
(* create_point3d_from_mesh.  mesh_obj.eval_attributes is the attribute    *)
(* list of the evaluated mesh, each attribute [name, data_type, data];     *)
(* matrix_world is [lin, off]: world = lin @ local + off.                  *)
(***************************************************************************)
S_position == <<"p","o","s","i","t","i","o","n">>
S_Color == <<"C","o","l","o","r">>
S_Col2 == <<"C","o","l","2">>
S_UVMap == <<"U","V","M","a","p">>

\* 'name' in attributes
HasAttr(attributes, name) == \E i \in DOMAIN attributes : attributes[i].name = name

\* attributes[name]
AttrByName(attributes, name) ==
    attributes[CHOOSE i \in DOMAIN attributes : attributes[i].name = name]

\* The loop of lines 25-29: the data of the first FLOAT_COLOR attribute, or None.
FirstFloatColour(attributes) ==
    LET idx == {i \in DOMAIN attributes : attributes[i].data_type = "FLOAT_COLOR"}
    IN IF idx = {} THEN None
       ELSE Some(attributes[CHOOSE i \in idx : \A j \in idx : i <= j].data)

\* bool(colour_attr): None and an empty collection are false.
Truthy(colour_attr) == colour_attr # None /\ Len(colour_attr[1]) > 0

\* mesh_obj.matrix_world @ local_pos
WorldCo(matrix_world, local_pos) ==
    LET v == MatVec(matrix_world.lin, local_pos)
    IN <<v[1] + matrix_world.off[1], v[2] + matrix_world.off[2], v[3] + matrix_world.off[3]>>

\* int(colour[k] * 255) for a channel c / ColDen
QuantiseChannel(c) == PyInt(c * 255, ColDen)

Point3D(id, xyz, rgb, error, image_ids, point2D_idxs) ==
    [id |-> id, xyz |-> xyz, rgb |-> rgb, error |-> error,
     image_ids |-> image_ids, point2D_idxs |-> point2D_idxs]

create_point3d_from_mesh(mesh_obj) ==
    LET attributes == mesh_obj.eval_attributes
    IN IF HasAttr(attributes, S_position)
       THEN LET position_attr == AttrByName(attributes, S_position).data
                colour_attr == FirstFloatColour(attributes)
            IN [i \in 1..Len(position_attr) |->
                  LET world_co == WorldCo(mesh_obj.matrix_world, position_attr[i])
                      rgb == IF Truthy(colour_attr) /\ i - 1 < Len(colour_attr[1])
                             THEN LET colour == colour_attr[1][i]
                                  IN <<QuantiseChannel(colour[1]),
                                       QuantiseChannel(colour[2]),
                                       QuantiseChannel(colour[3])>>
                             ELSE <<128, 128, 128>>
                  IN Point3D(i, world_co, rgb, 0, <<>>, <<>>)]
       ELSE <<>>


(***************************************************************************)
(* Python dicts are functions from keys to values.                         *)
(***************************************************************************)
EmptyDict == <<>>

\* d[k] = v
DictSet(d, k, v) == (k :> v) @@ d

\* {item.id: item for item in items}: a later item replaces an earlier one
\* with the same id.
RECURSIVE DictById(_)
DictById(items) ==
    IF items = <<>> THEN EmptyDict
    ELSE LET last == items[Len(items)]
         IN DictSet(DictById(SubSeq(items, 1, Len(items) - 1)), last.id, last)

(***************************************************************************)
(* The scene of the host.  Render settings and the camera data block are   *)
(* the same for every run of the model.                                    *)
(***************************************************************************)
Render ==
    [resolution_x |-> 1920, resolution_y |-> 1080, resolution_percentage |-> 50,
     file_format |-> <<"P","N","G">>]

CameraData(lens) == [lens |-> lens, sensor_width |-> 36, sensor_height |-> 24]

\* The operator property camera_model, at its default.
camera_model == "OPENCV"

PCGName == "PointCloudGeneration"

S_location == <<"l","o","c","a","t","i","o","n">>
S_rotation == <<"r","o","t","a","t","i","o","n">>
S_rotation_euler == <<"r","o","t","a","t","i","o","n","_","e","u","l","e","r">>
S_scale == <<"s","c","a","l","e">>
S_frame == <<"_","f","r","a","m","e","_">>

VARIABLES
    pc,                     \* where the run is
    cams,                   \* the scene's camera objects, in scene.objects order
    objects,                \* the other objects of bpy.data.objects, in its order
    frame_current,          \* scene.frame_current
    scene_camera,           \* scene.camera: the active camera's name, or None
    render_keyframes_only,  \* operator property
    entry,                  \* the host state when export_dataset was called
    modifier_states,        \* local of export_dataset
    point3ds,               \* local of export_dataset
    oi,                     \* setup_point_cloud_modifiers: index of obj
    setup_frame,            \* setup_point_cloud_modifiers: original_frame
    cameras,                \* local of export_dataset
    images,                 \* local of export_dataset
    total_renders,
    current_render,
    camera_id,
    image_id,
    order,                  \* sorted(scene_cameras, key=name_full), as indices of cams
    ci,                     \* index into order
    frames_to_render,
    fi,                     \* index into frames_to_render
    loop_frame,             \* export_dataset line 255: original_frame
    filename,               \* the file name of the image about to be rendered
    rendered,               \* files saved under images/, in order
    written,                \* what write_model was given, or None
    pending,                \* the outcome the finally clause will deliver
    result,                 \* how export_dataset ended
    raised_in,              \* the step whose exception ended the run
    calls,                  \* the calls made so far, in order: progress_begin,
                            \* create_point3d_from_mesh, render_camera_at_frame,
                            \* write_model, run_downsampling, progress_end
    exec_result,            \* how execute ended
    node_groups,            \* bpy.data.node_groups: its blocks, in order
    materials,              \* bpy.data.materials: the names of its blocks, in order
    selected_objects,       \* context.selected_objects of the apply_modifier operator
    applied,                \* the executions of apply_modifier so far
    apply_result,           \* how the last execution of apply_modifier ended
    fn_in,                  \* input of a function under test
    fn_out                  \* its result

hostVars == <<cams, objects, frame_current, scene_camera, render_keyframes_only>>
setupVars == <<modifier_states, point3ds, oi, setup_frame>>
loopVars == <<cameras, images, total_renders, current_render, camera_id, image_id,
              order, ci, frames_to_render, fi, loop_frame, filename>>
outVars == <<rendered, written, pending, result, raised_in>>
fnVars == <<fn_in, fn_out>>
execVars == <<calls, exec_result>>
applyVars == <<node_groups, materials, selected_objects, applied, apply_result>>
vars == <<pc, hostVars, entry, setupVars, loopVars, outVars, fnVars, execVars, applyVars>>

(***************************************************************************)
(* get_pc_gen_modifier: the first modifier whose node group is named       *)
(* PointCloudGeneration.  Reading mod.node_group.name raises               *)
(* AttributeError on a modifier type that has no node_group (NoAttr) and   *)
(* on a geometry-nodes modifier whose node group is unset (None).          *)
(***************************************************************************)
get_pc_gen_modifier(obj) ==
    LET mods == obj.modifiers
        bad(i) == mods[i].node_group.kind \in {"noattr", "none"}
        hits == {i \in DOMAIN mods : bad(i) \/ mods[i].node_group.name = PCGName}
    IN IF hits = {} THEN [kind |-> "none"]
       ELSE LET first == CHOOSE i \in hits : \A j \in hits : i <= j
            IN IF bad(first) THEN [kind |-> "raise"]
               ELSE [kind |-> "found", idx |-> first]

\* mod.node_group and "Group Input" in nodes and "Preview" in its outputs
HasPreviewInput(mod) ==
    /\ mod.node_group.kind = "group"
    /\ mod.node_group.group_input
    /\ mod.node_group.preview_socket

\* mod.get(identifier, True)
PreviewGet(mod) == IF mod.preview = None THEN TRUE ELSE mod.preview[1]

(***************************************************************************)
(* get_camera_keyframes                                                    *)
(***************************************************************************)
KeyedFrames(camera) ==
    IF camera.animation_data # None /\ camera.animation_data[1].action # None
    THEN LET fcurves == camera.animation_data[1].action[1].fcurves
         IN UNION { {PyInt(fcurves[c].keyframe_points[k], 2) :
                        k \in DOMAIN fcurves[c].keyframe_points} :
                    c \in {c \in DOMAIN fcurves :
                             \/ StartsWith(fcurves[c].data_path, S_location)
                             \/ StartsWith(fcurves[c].data_path, S_rotation)} }
    ELSE {}

get_camera_keyframes(camera, current) ==
    LET keyframes == KeyedFrames(camera)
    IN SortedInts(IF keyframes = {} THEN {current} ELSE keyframes)

(***************************************************************************)
(* get_camera_parameters: a parameter is a pair <<numerator, denominator>>.*)
(***************************************************************************)
RenderWidth == PyInt(Render.resolution_x * Render.resolution_percentage, 100)
RenderHeight == PyInt(Render.resolution_y * Render.resolution_percentage, 100)

get_camera_parameters(camera) ==
    LET fx == <<camera.data.lens * RenderWidth, camera.data.sensor_width>>
        fy == <<camera.data.lens * RenderHeight, camera.data.sensor_height>>
        cx == <<RenderWidth, 2>>
        cy == <<RenderHeight, 2>>
        zero == <<0, 1>>
    IN IF camera_model = "PINHOLE" THEN <<fx, fy, cx, cy>>
       ELSE <<fx, fy, cx, cy, zero, zero, zero, zero>>

Camera(id, model, width, height, params) ==
    [id |-> id, model |-> model, width |-> width, height |-> height, params |-> params]

Image(id, qvec, tvec, cam_id, name, xys, point3D_ids) ==
    [id |-> id, qvec |-> qvec, tvec |-> tvec, camera_id |-> cam_id, name |-> name,
     xys |-> xys, point3D_ids |-> point3D_ids]

\* scene.frame_set(frame), as the camera sees it: a camera whose location is
\* animated moves along its velocity; the others stay.
CameraAt(camera, frame) ==
    [camera EXCEPT !.location = <<camera.location[1] + frame * camera.velocity[1],
                                  camera.location[2] + frame * camera.velocity[2],
                                  camera.location[3] + frame * camera.velocity[3]>>]

\* The cameras are taken in scene order: the sort is left out.
RECURSIVE SceneOrder(_, _)
SceneOrder(cs, idx) ==
    IF idx = {} THEN <<>>
    ELSE LET m == CHOOSE i \in idx : \A j \in idx : i <= j
         IN <<m>> \o SceneOrder(cs, idx \ {m})

\* sorted(scene_cameras, key=lambda x: x.name_full), as indices into cams.
\* Object names are unique, so the order is total.
RECURSIVE SortByName(_, _)
SortByName(cs, idx) ==
    IF idx = {} THEN <<>>
    ELSE LET m == CHOOSE i \in idx :
                    \A j \in idx \ {i} : StrLess(cs[i].name_full, cs[j].name_full)
         IN <<m>> \o SortByName(cs, idx \ {m})

\* The file name of line 262 or 264.
ImageName(camera, frame, frames, keyframes_only) ==
    LET file_format == Lower(Render.file_format)
    IN IF keyframes_only /\ Len(frames) > 1
       THEN camera.name_full \o S_frame \o Format04d(frame) \o <<".">> \o file_format
       ELSE camera.name_full \o <<".">> \o file_format


(***************************************************************************)
(* The scenes the model runs on.                                           *)
(***************************************************************************)
Name_M == <<"M">>
Name_N == <<"N">>
Name_NF == <<"N","_","f","r","a","m","e","_","0","0","0","1">>

FCurve(path, points) == [data_path |-> path, keyframe_points |-> points]
Action(fcurves) == Some([action |-> Some([fcurves |-> fcurves])])

\* location keyed at frames 1 and 2
Anim_two == Action(<<FCurve(S_location, <<2, 4>>)>>)
\* rotation keyed at frame 3, location at frames 1 and 1.5
Anim_rotloc == Action(<<FCurve(S_rotation_euler, <<6>>), FCurve(S_location, <<2, 3>>)>>)
\* location keyed at frames 1 and 1.5: one frame
Anim_single == Action(<<FCurve(S_location, <<2, 3>>)>>)
\* only the scale is keyed
Anim_scale == Action(<<FCurve(S_scale, <<2, 4>>)>>)
\* animation data without an action
Anim_noaction == Some([action |-> None])

HasLocationCurve(anim) ==
    /\ anim # None
    /\ anim[1].action # None
    /\ \E c \in DOMAIN anim[1].action[1].fcurves :
          StartsWith(anim[1].action[1].fcurves[c].data_path, S_location)

\* A camera object.  Its lens, its rotation and its place go with its name, so
\* that no two cameras of a scene share intrinsics or a pose.
CamObject(name, anim) ==
    [name_full |-> name, type |-> "CAMERA", animation_data |-> anim,
     data |-> CameraData(CASE name = Name_N -> 35 [] name = Name_M -> 50 [] OTHER -> 85),
     rotation_mode |-> IF name = Name_N THEN "XYZ" ELSE "QUATERNION",
     rotation_quaternion |->
        CASE name = Name_N -> [w |-> QDen, x |-> 0, y |-> 0, z |-> 0]
          [] name = Name_M -> [w |-> 0, x |-> 0, y |-> QDen, z |-> 0]
          [] OTHER -> [w |-> 0, x |-> 0, y |-> 0, z |-> QDen],
     location |->
        CASE name = Name_N -> <<1, 2, 3>>
          [] name = Name_M -> <<0, -1, 2>>
          [] OTHER -> <<2, 0, -1>>,
     velocity |-> IF HasLocationCurve(anim) THEN <<1, 0, 0>> ELSE <<0, 0, 0>>]

CamPool ==
    {CamObject(Name_N, Anim_two), CamObject(Name_N, None),
     CamObject(Name_NF, None), CamObject(Name_NF, Anim_scale),
     CamObject(Name_M, Anim_rotloc), CamObject(Name_M, Anim_single),
     CamObject(Name_M, Anim_noaction)}

\* A node group: its name, whether it has a 'Group Input' node, and whether
\* that node has an output 'Image' and an output 'Preview'.
NodeGroup(name, group_input, image_socket, preview_socket) ==
    [kind |-> "group", name |-> name, group_input |-> group_input,
     image_socket |-> image_socket, preview_socket |-> preview_socket]

PCGGroup == NodeGroup(PCGName, TRUE, TRUE, TRUE)
PCGGroupNoPreview == NodeGroup(PCGName, TRUE, TRUE, FALSE)
OtherGroup == NodeGroup("Scatter", TRUE, FALSE, FALSE)

Modifier(type, node_group, show_viewport, show_render, preview) ==
    [type |-> type, node_group |-> node_group, show_viewport |-> show_viewport,
     show_render |-> show_render, preview |-> preview]

Attribute(name, data_type, data) == [name |-> name, data_type |-> data_type, data |-> data]

IdentityWorld == [lin |-> << <<1,0,0>>, <<0,1,0>>, <<0,0,1>> >>, off |-> <<0,0,0>>]
\* a quarter turn about Z, doubled in size, and moved
TurnedWorld == [lin |-> << <<0,-2,0>>, <<2,0,0>>, <<0,0,2>> >>, off |-> <<1,0,-1>>]

MeshObject(name, type, modifiers, matrix_world, eval_attributes) ==
    [name_full |-> name, type |-> type, modifiers |-> modifiers,
     matrix_world |-> matrix_world, eval_attributes |-> eval_attributes]

\* The objects a scene may hold, in name order.
ObjPool ==
    <<MeshObject("Cube", "MESH",
                 <<Modifier("SUBSURF", NoAttr, TRUE, TRUE, None)>>, IdentityWorld,
                 <<Attribute(S_position, "FLOAT_VECTOR", << <<1,0,0>> >>)>>),
      MeshObject("Curve", "CURVE",
                 <<Modifier("NODES", PCGGroup, TRUE, FALSE, Some(TRUE))>>, IdentityWorld,
                 <<>>),
      MeshObject("Floor", "MESH",
                 <<Modifier("NODES", OtherGroup, FALSE, TRUE, None)>>, IdentityWorld,
                 <<Attribute(S_position, "FLOAT_VECTOR", << <<1,0,0>> >>)>>),
      MeshObject("Plane", "MESH",
                 <<Modifier("NODES", PCGGroup, TRUE, TRUE, None)>>, IdentityWorld,
                 <<Attribute(S_position, "FLOAT_VECTOR", << <<1,0,0>>, <<0,1,-1>> >>),
                   Attribute(S_Color, "FLOAT_COLOR",
                             << <<ColDen, 0, 0, ColDen>>, <<2, 1, 3, ColDen>> >>)>>),
      MeshObject("Poster", "MESH",
                 <<Modifier("NODES", OtherGroup, TRUE, TRUE, None),
                   Modifier("NODES", PCGGroup, FALSE, TRUE, Some(TRUE))>>, TurnedWorld,
                 <<Attribute(S_position, "FLOAT_VECTOR", << <<0,1,-1>> >>)>>),
      MeshObject("Sign", "MESH",
                 <<Modifier("NODES", NoGroup, TRUE, TRUE, None),
                   Modifier("NODES", PCGGroup, FALSE, FALSE, Some(FALSE))>>, IdentityWorld,
                 <<Attribute(S_position, "FLOAT_VECTOR", << <<1,0,0>> >>)>>),
      MeshObject("Wall", "MESH",
                 <<Modifier("NODES", PCGGroupNoPreview, TRUE, FALSE, Some(FALSE)),
                   Modifier("SUBSURF", NoAttr, TRUE, TRUE, None)>>, IdentityWorld,
                 <<Attribute(S_UVMap, "FLOAT2", <<>>)>>)>>

\* bpy.data.objects lists its objects in name order: the selections of at most
\* n objects of the pool, in the pool's order.
SortedSelections(pool, n) ==
    {[k \in 1..Cardinality(I) |-> pool[SortedInts(I)[k]]] :
        I \in {J \in SUBSET DOMAIN pool : Cardinality(J) <= n}}

StartFrames == {0, 7}

\* The sequences of at most n elements of pool, no two with the same name.
DistinctSeqs(pool, n) ==
    UNION { {s \in [1..k -> pool] :
               \A i, j \in 1..k : i # j => s[i].name_full # s[j].name_full} :
            k \in 0..n }

Idle ==
    /\ entry = None
    /\ modifier_states = EmptyDict
    /\ point3ds = <<>>
    /\ oi = 0
    /\ setup_frame = 0
    /\ cameras = EmptyDict
    /\ images = EmptyDict
    /\ total_renders = 0
    /\ current_render = 0
    /\ camera_id = 0
    /\ image_id = 0
    /\ order = <<>>
    /\ ci = 0
    /\ frames_to_render = <<>>
    /\ fi = 0
    /\ loop_frame = 0
    /\ filename = <<>>
    /\ rendered = <<>>
    /\ written = None
    /\ pending = "none"
    /\ result = "none"
    /\ raised_in = "none"
    /\ calls = <<>>
    /\ exec_result = "none"

\* The apply_modifier operator is not in use.
ApplyIdle ==
    /\ node_groups = <<>>
    /\ materials = <<>>
    /\ selected_objects = <<>>
    /\ applied = 0
    /\ apply_result = "none"

Init ==
    /\ pc = "idle"
    /\ cams \in DistinctSeqs(CamPool, MaxCams)
    /\ objects \in SortedSelections(ObjPool, MaxMeshes)
    /\ frame_current \in StartFrames
    /\ scene_camera = IF cams = <<>> THEN None ELSE Some(cams[Len(cams)].name_full)
    /\ render_keyframes_only \in BOOLEAN
    /\ Idle
    /\ ApplyIdle
    /\ fn_in = None
    /\ fn_out = None


(***************************************************************************)
(* export_dataset, step by step.                                           *)
(***************************************************************************)
\* scene.objects: the cameras and the other objects.
SceneObjects == cams \o objects

\* Line 218, as indices into cams (the cameras come first in SceneObjects).
scene_cameras == {i \in DOMAIN SceneObjects : SceneObjects[i].type = "CAMERA"}

\* execute, lines 386-390: progress_begin, then export_dataset is called.
ExecuteBegin ==
    /\ pc = "idle"
    /\ calls' = Append(calls, "progress_begin")
    /\ pc' = "export"
    /\ UNCHANGED <<applyVars, hostVars, entry, setupVars, loopVars, outVars, fnVars, exec_result>>

\* Lines 215-216: one of the two mkdir calls raises (the path runs through a
\* regular file, or the place is not writable).  The calls come before the
\* test for cameras and are outside the try statement: export_dataset ends by
\* the exception with nothing else done.
ExportMkdirRaise ==
    /\ pc = "export"
    /\ entry' = Some([objects |-> objects, frame_current |-> frame_current,
                      scene_camera |-> scene_camera, cams |-> cams])
    /\ result' = "RAISED"
    /\ raised_in' = "mkdir"
    /\ pc' = "done"
    /\ UNCHANGED <<applyVars, hostVars, setupVars, loopVars, rendered, written, pending, fnVars, execVars>>

\* Lines 215-221: the directories are made; a scene without cameras.
ExportCancelled ==
    /\ pc = "export"
    /\ scene_cameras = {}
    /\ entry' = Some([objects |-> objects, frame_current |-> frame_current,
                      scene_camera |-> scene_camera, cams |-> cams])
    /\ result' = "CANCELLED"
    /\ pc' = "done"
    /\ UNCHANGED <<applyVars, hostVars, setupVars, loopVars, rendered, written, pending, raised_in, fnVars, execVars>>

\* Lines 215-223: the directories are made, the scene has a camera and
\* setup_point_cloud_modifiers is entered.
ExportBegin ==
    /\ pc = "export"
    /\ scene_cameras # {}
    /\ entry' = Some([objects |-> objects, frame_current |-> frame_current,
                      scene_camera |-> scene_camera, cams |-> cams])
    /\ modifier_states' = EmptyDict
    /\ point3ds' = <<>>
    /\ oi' = 1
    /\ pc' = "setup"
    /\ UNCHANGED <<applyVars, hostVars, setup_frame, loopVars, outVars, fnVars, execVars>>

\* Lines 93-97 and 108: what is stored for a modifier.
SavedState(mod) ==
    [show_viewport |-> mod.show_viewport,
     show_render |-> mod.show_render,
     preview_state |-> IF HasPreviewInput(mod) THEN Some(PreviewGet(mod)) ELSE None]

\* Lines 100-113: the modifier while its mesh is sampled.
EnabledMod(mod) ==
    [mod EXCEPT !.show_viewport = TRUE,
                !.show_render = TRUE,
                !.preview = IF HasPreviewInput(mod) THEN Some(FALSE) ELSE @]

\* The modifier is left as it was sampled.
ShownMod(mod) == mod

\* Lines 122-123: the modifier once its mesh is sampled.
HiddenMod(mod) == [mod EXCEPT !.show_viewport = FALSE, !.show_render = FALSE]

\* Lines 88-91: an object that is no mesh, or a mesh without the modifier.
SetupSkip ==
    /\ pc = "setup"
    /\ oi <= Len(objects)
    /\ \/ objects[oi].type # "MESH"
       \/ get_pc_gen_modifier(objects[oi]).kind = "none"
    /\ oi' = oi + 1
    /\ UNCHANGED <<applyVars, pc, hostVars, entry, modifier_states, point3ds, setup_frame,
                   loopVars, outVars, fnVars, execVars>>

\* Line 90: get_pc_gen_modifier raises; the call is outside the try statement.
SetupRaise ==
    /\ pc = "setup"
    /\ oi <= Len(objects)
    /\ objects[oi].type = "MESH"
    /\ get_pc_gen_modifier(objects[oi]).kind = "raise"
    /\ result' = "RAISED"
    /\ raised_in' = "setup"
    /\ pc' = "done"
    /\ UNCHANGED <<applyVars, hostVars, entry, setupVars, loopVars, rendered, written, pending, fnVars, execVars>>

\* Lines 91-117: the states are stored, the modifier is enabled, the frame is
\* moved on to force an update.
SetupEnable ==
    /\ pc = "setup"
    /\ oi <= Len(objects)
    /\ objects[oi].type = "MESH"
    /\ get_pc_gen_modifier(objects[oi]).kind = "found"
    /\ LET obj == objects[oi]
           m == get_pc_gen_modifier(obj).idx
           mod == obj.modifiers[m]
       IN /\ modifier_states' = DictSet(modifier_states, obj.name_full, SavedState(mod))
          /\ objects' = [objects EXCEPT ![oi].modifiers[m] = EnabledMod(mod)]
    /\ setup_frame' = frame_current
    /\ frame_current' = frame_current + 1
    /\ pc' = "sample"
    /\ UNCHANGED <<applyVars, cams, scene_camera, render_keyframes_only, entry, point3ds, oi,
                   loopVars, outVars, fnVars, execVars>>

\* Lines 120-125: the mesh is sampled, the modifier is hidden, the frame is put back.
SetupSample ==
    /\ pc = "sample"
    /\ LET obj == objects[oi]
           m == get_pc_gen_modifier(obj).idx
       IN /\ point3ds' = point3ds \o create_point3d_from_mesh(obj)
          /\ objects' = [objects EXCEPT ![oi].modifiers[m] = HiddenMod(obj.modifiers[m])]
    /\ frame_current' = setup_frame
    /\ oi' = oi + 1
    /\ pc' = "setup"
    /\ calls' = Append(calls, "create_point3d_from_mesh")
    /\ UNCHANGED <<applyVars, cams, scene_camera, render_keyframes_only, entry, modifier_states,
                   setup_frame, loopVars, outVars, fnVars, exec_result>>

\* Line 230: inside the try statement modifier_states is bound again.
TryModifierStates(states) == EmptyDict

\* Lines 231-236
TotalRenders ==
    SeqSum([i \in DOMAIN cams |->
              IF render_keyframes_only
              THEN Len(get_camera_keyframes(cams[i], frame_current))
              ELSE 1])

\* Lines 226-240: the try statement is entered.
EnterTry ==
    /\ pc = "setup"
    /\ oi > Len(objects)
    /\ cameras' = EmptyDict
    /\ images' = EmptyDict
    /\ total_renders' = TotalRenders
    /\ current_render' = 0
    /\ modifier_states' = TryModifierStates(modifier_states)
    /\ camera_id' = 1
    /\ image_id' = 1
    /\ order' = SortByName(cams, scene_cameras)
    /\ ci' = 1
    /\ pc' = "camera"
    /\ UNCHANGED <<applyVars, hostVars, entry, point3ds, oi, setup_frame, frames_to_render, fi,
                   loop_frame, filename, outVars, fnVars, execVars>>

\* Lines 241-252: the Camera record and the frames of one camera.
CameraStep ==
    /\ pc = "camera"
    /\ ci <= Len(order)
    /\ LET camera == cams[order[ci]]
       IN /\ cameras' = DictSet(cameras, camera_id,
                                Camera(camera_id, camera_model, RenderWidth, RenderHeight,
                                       get_camera_parameters(camera)))
          /\ frames_to_render' = IF render_keyframes_only
                                 THEN get_camera_keyframes(camera, frame_current)
                                 ELSE <<frame_current>>
    /\ fi' = 1
    /\ pc' = "frame"
    /\ UNCHANGED <<applyVars, hostVars, entry, setupVars, images, total_renders, current_render,
                   camera_id, image_id, order, ci, loop_frame, filename, outVars, fnVars, execVars>>

\* Lines 255-274: the pose and the Image record of one frame.
FramePose ==
    /\ pc = "frame"
    /\ LET camera == cams[order[ci]]
           frame == frames_to_render[fi]
           pose == get_camera_pose(CameraAt(camera, frame))
           name == ImageName(camera, frame, frames_to_render, render_keyframes_only)
       IN /\ loop_frame' = frame_current
          /\ frame_current' = frame
          /\ cams' = [cams EXCEPT ![order[ci]].rotation_mode = rotation_mode_after(camera)]
          /\ filename' = name
          /\ images' = DictSet(images, image_id,
                               Image(image_id, pose.qvec, pose.tvec, camera_id, name,
                                     <<>>, <<>>))
    /\ pc' = "render"
    /\ UNCHANGED <<applyVars, objects, scene_camera, render_keyframes_only, entry, setupVars, cameras,
                   total_renders, current_render, camera_id, image_id, order, ci,
                   frames_to_render, fi, outVars, fnVars, execVars>>

\* Line 282
NextImageId(id) == id + 1

\* The camera id is not advanced.
SameCameraId(id) == id

\* Line 284
NextCameraId(id) == id + 1

\* Lines 275-284: render_camera_at_frame returns (its finally clause has put
\* the frame and the active camera back), the frame of line 255 is restored
\* and the loops go on.
RenderOk ==
    /\ pc = "render"
    /\ rendered' = Append(rendered, filename)
    /\ current_render' = current_render + 1
    /\ frame_current' = loop_frame
    /\ image_id' = NextImageId(image_id)
    /\ IF fi < Len(frames_to_render)
       THEN /\ fi' = fi + 1
            /\ pc' = "frame"
            /\ UNCHANGED <<camera_id, ci>>
       ELSE /\ camera_id' = NextCameraId(camera_id)
            /\ ci' = ci + 1
            /\ pc' = "camera"
            /\ UNCHANGED fi
    /\ calls' = Append(calls, "render_camera_at_frame")
    /\ UNCHANGED <<applyVars, cams, objects, scene_camera, render_keyframes_only, entry, setupVars,
                   cameras, images, total_renders, order, frames_to_render, loop_frame,
                   filename, written, pending, result, raised_in, fnVars, exec_result>>

\* Lines 203-208: the render or the save raises; the finally clause of
\* render_camera_at_frame puts back the frame and the camera it found, and the
\* exception leaves the loops.
RenderRaise ==
    /\ pc = "render"
    /\ pending' = "RAISED"
    /\ raised_in' = "render"
    /\ pc' = "finally"
    /\ calls' = Append(calls, "render_camera_at_frame")
    /\ UNCHANGED <<applyVars, hostVars, entry, setupVars, loopVars, rendered, written, result, fnVars, exec_result>>

\* Line 286: write_model returns.
WriteOk ==
    /\ pc = "camera"
    /\ ci > Len(order)
    /\ written' = Some([cameras |-> cameras, images |-> images,
                        points |-> DictById(point3ds)])
    /\ pending' = "FINISHED"
    /\ pc' = "finally"
    /\ calls' = Append(calls, "write_model")
    /\ UNCHANGED <<applyVars, hostVars, entry, setupVars, loopVars, rendered, result, raised_in, fnVars, exec_result>>

\* The exception of write_model is swallowed and the run goes on as a success.
WriteRaiseSwallowed ==
    /\ pc = "camera"
    /\ ci > Len(order)
    /\ calls' = Append(calls, "write_model")
    /\ pending' = "FINISHED"
    /\ raised_in' = "write"
    /\ pc' = "finally"
    /\ UNCHANGED <<applyVars, hostVars, entry, setupVars, loopVars, rendered, written, result, fnVars,
                   exec_result>>

\* Line 286: write_model raises.
WriteRaise ==
    /\ pc = "camera"
    /\ ci > Len(order)
    /\ pending' = "RAISED"
    /\ raised_in' = "write"
    /\ pc' = "finally"
    /\ calls' = Append(calls, "write_model")
    /\ UNCHANGED <<applyVars, hostVars, entry, setupVars, loopVars, rendered, written, result, fnVars, exec_result>>

\* Lines 131-143, the body of the loop of restore_modifier_states for one
\* object: kind is "raise" when the lookup of line 133 raises (obj is then
\* left as it is), "ok" otherwise, with obj as the body leaves it.
RestoreObject(obj, states) ==
    IF obj.type = "MESH" /\ obj.name_full \in DOMAIN states
    THEN LET r == get_pc_gen_modifier(obj)
         IN IF r.kind = "raise"
            THEN [kind |-> "raise", obj |-> obj]
            ELSE IF r.kind = "found"
            THEN LET mod == obj.modifiers[r.idx]
                     st == states[obj.name_full]
                 IN [kind |-> "ok",
                     obj |-> [obj EXCEPT !.modifiers[r.idx] =
                        [mod EXCEPT !.show_viewport = st.show_viewport,
                                    !.show_render = st.show_render,
                                    !.preview = IF st.preview_state # None /\ HasPreviewInput(mod)
                                                THEN Some(st.preview_state[1])
                                                ELSE @]]]
            ELSE [kind |-> "ok", obj |-> obj]
    ELSE [kind |-> "ok", obj |-> obj]

\* restore_modifier_states: the objects are taken in turn; the first object
\* whose lookup raises ends the loop by that exception, with the objects
\* before it restored and the others as they were.
restore_modifier_states(objs, states) ==
    LET raising == {i \in DOMAIN objs : RestoreObject(objs[i], states).kind = "raise"}
        stop == IF raising = {} THEN Len(objs) + 1
                ELSE CHOOSE i \in raising : \A j \in raising : i <= j
    IN [kind |-> IF raising = {} THEN "ok" ELSE "raise",
        objects |-> [i \in DOMAIN objs |->
                       IF i < stop THEN RestoreObject(objs[i], states).obj ELSE objs[i]]]

\* Lines 287-290: the finally clause, then the return or the exception.  An
\* exception of restore_modifier_states takes the place of the pending outcome.
Finally ==
    /\ pc = "finally"
    /\ LET r == restore_modifier_states(objects, modifier_states)
       IN /\ objects' = r.objects
          /\ result' = IF r.kind = "raise" THEN "RAISED" ELSE pending
          /\ raised_in' = IF r.kind = "raise" THEN "restore" ELSE raised_in
    /\ pc' = "done"
    /\ UNCHANGED <<applyVars, cams, frame_current, scene_camera, render_keyframes_only, entry,
                   setupVars, loopVars, rendered, written, pending, fnVars, execVars>>

\* execute, lines 391-396, when run_downsampling is not called: export_dataset
\* raised, or returned CANCELLED, or downsample_images is off.  progress_end is
\* called in the finally clause; the result is returned or the exception goes on.
ExecuteEnd ==
    /\ pc = "done"
    /\ \E downsample_images \in BOOLEAN : ~(result = "FINISHED" /\ downsample_images)
    /\ calls' = Append(calls, "progress_end")
    /\ exec_result' = result
    /\ pc' = "returned"
    /\ UNCHANGED <<applyVars, hostVars, entry, setupVars, loopVars, outVars, fnVars>>

\* execute, lines 391-396: run_downsampling is called and returns.
ExecuteDownsample ==
    /\ pc = "done"
    /\ \E downsample_images \in BOOLEAN : result = "FINISHED" /\ downsample_images
    /\ calls' = calls \o <<"run_downsampling", "progress_end">>
    /\ exec_result' = result
    /\ pc' = "returned"
    /\ UNCHANGED <<applyVars, hostVars, entry, setupVars, loopVars, outVars, fnVars>>

\* execute, lines 391-396: run_downsampling is called and raises (the mkdir
\* of line 377 is outside every try statement); the exception leaves execute
\* through the finally clause.
ExecuteDownsampleRaise ==
    /\ pc = "done"
    /\ \E downsample_images \in BOOLEAN : result = "FINISHED" /\ downsample_images
    /\ calls' = calls \o <<"run_downsampling", "progress_end">>
    /\ exec_result' = "RAISED"
    /\ pc' = "returned"
    /\ UNCHANGED <<applyVars, hostVars, entry, setupVars, loopVars, outVars, fnVars>>

Next ==
    \/ ExecuteBegin
    \/ ExportMkdirRaise
    \/ ExportCancelled
    \/ ExportBegin
    \/ SetupSkip
    \/ SetupRaise
    \/ SetupEnable
    \/ SetupSample
    \/ EnterTry
    \/ CameraStep
    \/ FramePose
    \/ RenderOk
    \/ RenderRaise
    \/ WriteOk
    \/ WriteRaise
    \/ Finally
    \/ ExecuteEnd
    \/ ExecuteDownsample
    \/ ExecuteDownsampleRaise

Spec == Init /\ [][Next]_vars


(***************************************************************************)
(* get_camera_pose on its own: every unit quaternion with numerators in    *)
(* -QDen..QDen, every position of a small cube, both rotation modes.       *)
(***************************************************************************)
UnitQuats ==
    {q \in [w : -QDen..QDen, x : -QDen..QDen, y : -QDen..QDen, z : -QDen..QDen] :
        q.w * q.w + q.x * q.x + q.y * q.y + q.z * q.z = QDen * QDen}

Locations == {<<a, b, c>> : a \in -MaxCoord..MaxCoord, b \in -MaxCoord..MaxCoord,
                            c \in -MaxCoord..MaxCoord}

PoseInputs ==
    {[rotation_mode |-> m, rotation_quaternion |-> q, location |-> l] :
        m \in {"XYZ", "QUATERNION"}, q \in UnitQuats, l \in Locations}

HostIdle ==
    /\ cams = <<>>
    /\ objects = <<>>
    /\ frame_current = 0
    /\ scene_camera = None
    /\ render_keyframes_only = TRUE

InitPose ==
    /\ pc = "pose_call"
    /\ fn_in \in {Some(c) : c \in PoseInputs}
    /\ fn_out = None
    /\ HostIdle
    /\ Idle
    /\ ApplyIdle

PoseCall ==
    /\ pc = "pose_call"
    /\ fn_out' = Some([pose |-> get_camera_pose(fn_in[1]),
                       rotation_mode |-> rotation_mode_after(fn_in[1])])
    /\ pc' = "pose_done"
    /\ UNCHANGED <<applyVars, hostVars, entry, setupVars, loopVars, outVars, fn_in, execVars>>

NextPose == PoseCall

SpecPose == InitPose /\ [][NextPose]_vars

(***************************************************************************)
(* create_point3d_from_mesh on its own: evaluated meshes with up to        *)
(* MaxPoints positions and colours, in every attribute layout below.       *)
(***************************************************************************)
PositionPool == {<<1, 0, 0>>, <<0, 1, -1>>}

\* red; an in-range colour; a channel above 1; a channel below 0
ColourPool ==
    {<<ColDen, 0, 0, ColDen>>, <<2, 1, 3, ColDen>>, <<ColDen + 2, 0, ColDen, ColDen>>,
     <<0, -2, ColDen, ColDen>>}

SeqsUpTo(S, n) == UNION {[1..k -> S] : k \in 0..n}

AttributeLayouts(pos, col) ==
    {<<Attribute(S_UVMap, "FLOAT2", <<>>), Attribute(S_Color, "FLOAT_COLOR", col)>>,
     <<Attribute(S_position, "FLOAT_VECTOR", pos)>>,
     <<Attribute(S_position, "FLOAT_VECTOR", pos), Attribute(S_Color, "FLOAT_COLOR", col)>>,
     <<Attribute(S_Color, "FLOAT_COLOR", col), Attribute(S_position, "FLOAT_VECTOR", pos)>>,
     <<Attribute(S_position, "FLOAT_VECTOR", pos), Attribute(S_Col2, "BYTE_COLOR", col)>>,
     <<Attribute(S_position, "FLOAT_VECTOR", pos), Attribute(S_Col2, "BYTE_COLOR", <<>>),
       Attribute(S_Color, "FLOAT_COLOR", col)>>,
     <<Attribute(S_position, "FLOAT_VECTOR", pos), Attribute(S_Color, "FLOAT_COLOR", col),
       Attribute(S_Col2, "FLOAT_COLOR", <<>>)>>,
     <<Attribute(S_position, "FLOAT_VECTOR", pos), Attribute(S_Col2, "FLOAT_COLOR", <<>>),
       Attribute(S_Color, "FLOAT_COLOR", col)>>}

PointInputs ==
    UNION {UNION {{MeshObject("Mesh", "MESH", <<>>, mw, attrs) :
                      mw \in {IdentityWorld, TurnedWorld},
                      attrs \in AttributeLayouts(pos, col)} :
                  col \in SeqsUpTo(ColourPool, MaxPoints)} :
           pos \in SeqsUpTo(PositionPool, MaxPoints)}

InitPoints ==
    /\ pc = "points_call"
    /\ fn_in \in {Some(m) : m \in PointInputs}
    /\ fn_out = None
    /\ HostIdle
    /\ Idle
    /\ ApplyIdle

PointsCall ==
    /\ pc = "points_call"
    /\ fn_out' = Some(create_point3d_from_mesh(fn_in[1]))
    /\ pc' = "points_done"
    /\ UNCHANGED <<applyVars, hostVars, entry, setupVars, loopVars, outVars, fn_in, execVars>>

NextPoints == PointsCall

SpecPoints == InitPoints /\ [][NextPoints]_vars

(***************************************************************************)
(* COLMAP_PREP_OT_apply_modifier.execute, with create_geometry_node_setup  *)
(* and create_point_material.  bpy.data.node_groups is the sequence of its *)
(* node groups and bpy.data.materials the sequence of the names of its     *)
(* materials; the host keeps the names of a collection distinct by         *)
(* numbering a name that is taken.                                         *)
(***************************************************************************)
M_Point == "M_Point"

\* 'name' in collection
InCollection(collection, name) == \E i \in DOMAIN collection : collection[i] = name

\* The names of the node groups of bpy.data.node_groups.
GroupNames(groups) == [i \in DOMAIN groups |-> groups[i].name]

\* The name the host gives a new block when the name asked for is taken.
Numbered(name) ==
    CASE name = PCGName -> "PointCloudGeneration.001"
      [] name = M_Point -> "M_Point.001"
      [] name = "PointCloudGeneration.001" -> "PointCloudGeneration.002"
      [] name = "PointCloudGeneration.002" -> "PointCloudGeneration.003"
      [] name = "PointCloudGeneration.003" -> "PointCloudGeneration.004"
      [] OTHER -> "PointCloudGeneration.005"

\* collection.new(name): the name of the new block.
RECURSIVE NewName(_, _)
NewName(collection, name) ==
    IF InCollection(collection, name) THEN NewName(collection, Numbered(name)) ELSE name

\* create_point_material: the materials afterwards.
create_point_material(mats) ==
    IF InCollection(mats, M_Point) THEN mats
    ELSE Append(mats, NewName(mats, M_Point))

\* create_geometry_node_setup: the collections afterwards and the node group
\* it returns.  A node group of the name that is there already is returned as
\* it is (lines 34-35), whatever its nodes, and create_point_material is not
\* called then.
create_geometry_node_setup(groups, mats) ==
    IF InCollection(GroupNames(groups), PCGName)
    THEN [node_groups |-> groups, materials |-> mats,
          node_group |-> groups[CHOOSE i \in DOMAIN groups : groups[i].name = PCGName]]
    ELSE LET name == NewName(GroupNames(groups), PCGName)
             made == NodeGroup(name, TRUE, TRUE, TRUE)
         IN [node_groups |-> Append(groups, made),
             materials |-> create_point_material(mats),
             node_group |-> made]

\* A selected object: image is the image get_image_from_material finds in
\* its materials (or None), image_input what the Image input of its
\* PointCloudGeneration modifier holds (or None).
SelObject(name, type, modifiers, image) ==
    [name_full |-> name, type |-> type, modifiers |-> modifiers, image |-> image,
     image_input |-> None]

\* Line 47: nodes['Group Input'] or outputs['Image'] raises KeyError on a node
\* group without that node or without that output.
ImageLookupRaises(node_group) == ~node_group.group_input \/ ~node_group.image_socket

\* Lines 20-53 for one object.  has_key is image_identifier in modifier.  kind
\* is "raise" when the lookup of line 47 raises: the modifier of lines 33-34 is
\* on the object by then, the image is not set.
ApplyToObject(obj, node_group, has_key) ==
    IF obj.type # "MESH" THEN [kind |-> "ok", obj |-> obj]
    ELSE LET existing == {m \in DOMAIN obj.modifiers :
                            /\ obj.modifiers[m].type = "NODES"
                            /\ obj.modifiers[m].node_group = node_group}
             modifiers == IF existing = {}
                          THEN Append(obj.modifiers,
                                      Modifier("NODES", node_group, TRUE, TRUE, None))
                          ELSE obj.modifiers
         IN IF ImageLookupRaises(node_group)
            THEN [kind |-> "raise", obj |-> [obj EXCEPT !.modifiers = modifiers]]
            ELSE [kind |-> "ok",
                  obj |-> [obj EXCEPT !.modifiers = modifiers,
                                      !.image_input = IF obj.image # None /\ has_key
                                                      THEN obj.image ELSE @]]

\* Lines 20-53: the selected objects are taken in turn; the first object on
\* which line 47 raises ends the loop by that exception, and the objects
\* after it are left as they were.
ApplyToSelection(selected, node_group, has_key) ==
    LET done(i) == ApplyToObject(selected[i], node_group, has_key[i])
        raising == {i \in DOMAIN selected : done(i).kind = "raise"}
        stop == IF raising = {} THEN Len(selected)
                ELSE CHOOSE i \in raising : \A j \in raising : i <= j
    IN [kind |-> IF raising = {} THEN "ok" ELSE "raise",
        selected_objects |-> [i \in DOMAIN selected |->
                                IF i <= stop THEN done(i).obj ELSE selected[i]]]

\* poll
Poll(selected) ==
    /\ selected # <<>>
    /\ \E i \in DOMAIN selected : selected[i].type = "MESH"

\* A node group named PointCloudGeneration that was not made by
\* create_geometry_node_setup: one without a 'Group Input' node, one whose
\* 'Group Input' node has no output 'Image'.
PCGGroupNoInput == NodeGroup(PCGName, FALSE, FALSE, FALSE)
PCGGroupNoImage == NodeGroup(PCGName, TRUE, FALSE, TRUE)

\* The objects a selection is made of, in a file whose node group of the name
\* PointCloudGeneration is pcg (NoGroup in a file without one).  "Tile" holds
\* the modifier from an earlier execution of the operator, "Twin" holds it
\* twice (the modifier was duplicated) and the curve "Rail" holds a
\* geometry-nodes modifier bound to the node group.
SelPool(pcg) ==
    {SelObject("Quad", "MESH", <<>>, None),
     SelObject("Board", "MESH", <<Modifier("SUBSURF", NoAttr, TRUE, TRUE, None)>>,
               Some("board.png")),
     SelObject("Card", "MESH",
               <<Modifier("NODES", OtherGroup, TRUE, TRUE, None),
                 Modifier("NODES", NoGroup, TRUE, TRUE, None)>>, None),
     SelObject("Path", "CURVE", <<>>, None)}
    \cup
    (IF pcg = NoGroup THEN {}
     ELSE {SelObject("Tile", "MESH",
                     <<Modifier("NODES", pcg, FALSE, FALSE, Some(FALSE))>>, Some("tile.png")),
           SelObject("Twin", "MESH",
                     <<Modifier("NODES", pcg, TRUE, TRUE, None),
                       Modifier("NODES", pcg, TRUE, TRUE, None)>>, None),
           SelObject("Rail", "CURVE",
                     <<Modifier("NODES", pcg, TRUE, TRUE, None)>>, None)})

\* The node groups named PointCloudGeneration a file can hold.
PCGBlocks == {NoGroup, PCGGroup, PCGGroupNoInput, PCGGroupNoImage}

\* The blocks of bpy.data before the first execution: with or without a node
\* group of the name, with or without the material, in every combination; a
\* modifier is bound to a node group of the file.
InitApply ==
    /\ pc = "apply"
    /\ \E pcg \in PCGBlocks :
          /\ node_groups = IF pcg = NoGroup THEN <<OtherGroup>> ELSE <<OtherGroup, pcg>>
          /\ selected_objects \in DistinctSeqs(SelPool(pcg), MaxMeshes)
    /\ materials \in {<<"Paper">>, <<"Paper", M_Point>>}
    /\ Poll(selected_objects)
    /\ applied = 0
    /\ apply_result = "none"
    /\ fn_in = Some([node_groups |-> node_groups, materials |-> materials,
                     selected_objects |-> selected_objects])
    /\ fn_out = None
    /\ HostIdle
    /\ Idle

\* execute, lines 14-60, returning FINISHED.
ApplyModifier ==
    /\ pc = "apply"
    /\ Poll(selected_objects)
    /\ applied < MaxRuns
    /\ LET made == create_geometry_node_setup(node_groups, materials)
       IN /\ node_groups' = made.node_groups
          /\ materials' = made.materials
          /\ \E has_key \in [DOMAIN selected_objects -> BOOLEAN] :
                LET r == ApplyToSelection(selected_objects, made.node_group, has_key)
                IN /\ r.kind = "ok"
                   /\ selected_objects' = r.selected_objects
    /\ applied' = applied + 1
    /\ apply_result' = "FINISHED"
    /\ UNCHANGED <<pc, hostVars, entry, setupVars, loopVars, outVars, fnVars, execVars>>

\* execute, lines 14-47, ended by the exception of line 47 on the first
\* selected mesh.
ApplyModifierRaise ==
    /\ pc = "apply"
    /\ Poll(selected_objects)
    /\ applied < MaxRuns
    /\ LET made == create_geometry_node_setup(node_groups, materials)
           r == ApplyToSelection(selected_objects, made.node_group,
                                 [i \in DOMAIN selected_objects |-> FALSE])
       IN /\ r.kind = "raise"
          /\ node_groups' = made.node_groups
          /\ materials' = made.materials
          /\ selected_objects' = r.selected_objects
    /\ applied' = applied + 1
    /\ apply_result' = "RAISED"
    /\ UNCHANGED <<pc, hostVars, entry, setupVars, loopVars, outVars, fnVars, execVars>>

NextApply ==
    \/ ApplyModifier
    \/ ApplyModifierRaise

SpecApply == InitApply /\ [][NextApply]_vars


(***************************************************************************)
(* Properties of an export run (Spec).                                     *)
(***************************************************************************)
\* export_dataset is about to call write_model (line 286).
AtWrite == pc = "camera" /\ ci > Len(order)

\* export_dataset has ended by returning FINISHED or by an exception of a
\* render or of write_model.
EndedAfterSetup ==
    /\ pc = "done"
    /\ \/ result = "FINISHED"
       \/ result = "RAISED" /\ raised_in \in {"render", "write"}

\* The modifiers of obj that are bound to the PointCloudGeneration node group.
PCGModifiers(obj) ==
    {m \in DOMAIN obj.modifiers :
        /\ obj.modifiers[m].node_group.kind = "group"
        /\ obj.modifiers[m].node_group.name = PCGName}

\* The value of a modifier's Preview input: the node group's default (True,
\* create_pc_generation_geometrynode.py line 60) while the modifier holds none.
PreviewInput(mod) == IF mod.preview = None THEN TRUE ELSE mod.preview[1]

\* C1: once export_dataset has finished, by returning FINISHED or by raising
\* during rendering or writing, every mesh that carries the PointCloudGeneration
\* modifier has the show_viewport flag, the show_render flag and the Preview
\* input it had when export_dataset was called.
C1_ModifierStatesRestored ==
    EndedAfterSetup =>
        \A i \in DOMAIN objects :
            LET before == entry[1].objects[i]
                after == objects[i]
            IN before.type = "MESH" =>
                 \A m \in PCGModifiers(before) :
                    /\ after.modifiers[m].show_viewport = before.modifiers[m].show_viewport
                    /\ after.modifiers[m].show_render = before.modifiers[m].show_render
                    /\ PreviewInput(after.modifiers[m]) = PreviewInput(before.modifiers[m])

\* The number of position samples of the evaluated mesh of obj.
PositionSamples(obj) ==
    LET idx == {a \in DOMAIN obj.eval_attributes : obj.eval_attributes[a].name = S_position}
    IN IF idx = {} THEN 0
       ELSE Len(obj.eval_attributes[CHOOSE a \in idx : TRUE].data)

\* The position samples of all meshes that carry the point-cloud modifier.
TotalSamples ==
    SeqSum([i \in DOMAIN objects |->
              IF objects[i].type = "MESH" /\ PCGModifiers(objects[i]) # {}
              THEN PositionSamples(objects[i]) ELSE 0])

\* C2: the Point3D records collected in one export run have pairwise different
\* ids, and the points collection handed to write_model has one entry per
\* sampled point: its size is the total number of position samples.
C2_PointIdsUnique ==
    written # None =>
        /\ \A i, j \in DOMAIN point3ds : i # j => point3ds[i].id # point3ds[j].id
        /\ Cardinality(DOMAIN written[1].points) = TotalSamples

\* The place of camera c of cams in ascending name_full order.
NameRank(c) ==
    1 + Cardinality({d \in DOMAIN cams : StrLess(cams[d].name_full, cams[c].name_full)})

\* The frames any run of the model may render.
FrameRange == 0..9

\* Image im holds a pose of scene camera c.
HoldsPoseOf(im, c) ==
    \E f \in FrameRange :
        LET at == CameraAt(cams[c], f)
            qw == at.rotation_quaternion.x
            qx == at.rotation_quaternion.w
            qy == at.rotation_quaternion.z
            qz == -at.rotation_quaternion.y
        IN /\ im.qvec = <<qw, qx, qy, qz>>
           /\ im.tvec = Neg(MatVec(to_matrix([w |-> qw, x |-> qx, y |-> qy, z |-> qz]),
                                   at.location))

\* C3: when export_dataset calls write_model, every Image has a camera_id that
\* is a key of the cameras map, and that key is the id of the Camera record
\* made for the scene camera whose pose the image holds.
C3_ReferentialIntegrity ==
    AtWrite =>
        \A i \in DOMAIN images :
            /\ images[i].camera_id \in DOMAIN cameras
            /\ cameras[images[i].camera_id].id = images[i].camera_id
            /\ \E c \in DOMAIN cams :
                  /\ HoldsPoseOf(images[i], c)
                  /\ \A d \in DOMAIN cams : HoldsPoseOf(images[i], d) => d = c
                  /\ images[i].camera_id = NameRank(c)
                  /\ cameras[images[i].camera_id].params[1][1] = cams[c].data.lens * RenderWidth

\* C3's case: two cameras, one of them with several keyframes, are written.
C3_Witness ==
    /\ AtWrite
    /\ Cardinality(DOMAIN cameras) >= 2
    /\ Cardinality(DOMAIN images) >= 3
    /\ \E i \in DOMAIN images : images[i].camera_id = 2

\* C9: within one export run any two distinct Image records have distinct
\* names, so no file rendered under images/ is overwritten by the render of
\* another image.
C9_ImageNamesDistinct ==
    /\ \A i, j \in DOMAIN images : i # j => images[i].name # images[j].name
    /\ \A i, j \in DOMAIN rendered : i # j => rendered[i] # rendered[j]

\* The times, in half frames, of the keyframes on the location and rotation
\* curves of a camera.
LocRotKeyTimes(cam) ==
    IF cam.animation_data = None THEN {}
    ELSE IF cam.animation_data[1].action = None THEN {}
    ELSE LET fc == cam.animation_data[1].action[1].fcurves
         IN {h \in 0..20 :
                \E c \in DOMAIN fc :
                   /\ Len(fc[c].data_path) >= 8
                   /\ \/ SubSeq(fc[c].data_path, 1, 8) = S_location
                      \/ SubSeq(fc[c].data_path, 1, 8) = S_rotation
                   /\ \E k \in DOMAIN fc[c].keyframe_points : fc[c].keyframe_points[k] = h}

\* The number of frames exported for a camera: the number of whole frames its
\* location and rotation keyframes fall on, or 1 when it has none or
\* render_keyframes_only is off.
FramesExported(cam) ==
    LET frames == {h \div 2 : h \in LocRotKeyTimes(cam)}
    IN IF render_keyframes_only /\ frames # {} THEN Cardinality(frames) ELSE 1

\* C10: in one export run with N scene cameras the cameras map has the keys
\* 1..N, given in ascending name_full order, and the images map has the keys
\* 1..M, M the sum over the cameras of the frames exported for each, given in
\* creation order; every record's id is its key.
C10_IdAssignment ==
    AtWrite =>
        /\ DOMAIN cameras = 1..Len(cams)
        /\ \A k \in DOMAIN cameras : cameras[k].id = k
        /\ \A c \in DOMAIN cams :
              cameras[NameRank(c)].params[1][1] = cams[c].data.lens * RenderWidth
        /\ DOMAIN images = 1..SeqSum([c \in DOMAIN cams |-> FramesExported(cams[c])])
        /\ \A k \in DOMAIN images : images[k].id = k
        /\ Len(rendered) = Cardinality(DOMAIN images)
        /\ \A k \in DOMAIN images : images[k].name = rendered[k]
        /\ \A k, l \in DOMAIN images : k < l => images[k].camera_id <= images[l].camera_id

\* C10's case: cameras that the scene lists out of name order, one of them
\* with several keyframes.
C10_Witness ==
    /\ AtWrite
    /\ Len(cams) >= 2
    /\ StrLess(cams[2].name_full, cams[1].name_full)
    /\ render_keyframes_only
    /\ \E c \in DOMAIN cams : FramesExported(cams[c]) >= 2
    /\ \E c \in DOMAIN cams : LocRotKeyTimes(cams[c]) = {} /\ cams[c].animation_data # None

\* The positions in calls of the calls of a function.
CallsOf(fn) == {k \in DOMAIN calls : calls[k] = fn}

\* execute has ended, by a return or by an exception.
Returned == pc = "returned"

\* C11, as stated: execute returns FINISHED only if write_model was called
\* exactly once, after every render of the run, and returned without raising;
\* on a scene without cameras execute returns CANCELLED, with no call of
\* write_model, no render and no touched modifier; whenever execute ends other
\* than by returning FINISHED, run_downsampling was not executed; progress_end
\* is called exactly once on every exit path.
C11_AsClaimed ==
    /\ exec_result = "FINISHED" =>
          /\ Cardinality(CallsOf("write_model")) = 1
          /\ \A r \in CallsOf("render_camera_at_frame") :
                \A w \in CallsOf("write_model") : r < w
          /\ written # None
          /\ raised_in = "none"
    /\ (Returned /\ cams = <<>>) =>
          /\ exec_result = "CANCELLED"
          /\ CallsOf("write_model") = {}
          /\ CallsOf("render_camera_at_frame") = {}
          /\ CallsOf("create_point3d_from_mesh") = {}
          /\ objects = entry[1].objects
    /\ (Returned /\ exec_result # "FINISHED") => CallsOf("run_downsampling") = {}
    /\ Cardinality(CallsOf("progress_end")) = IF Returned THEN 1 ELSE 0

\* C11: execute returns FINISHED only if write_model was called exactly once,
\* after every render of the run, and returned without raising; on a scene
\* without cameras there is no call of write_model, no render and no touched
\* modifier, and execute returns CANCELLED when the output directories could be
\* made and ends by the exception of mkdir when they could not;
\* run_downsampling is executed only after export_dataset returned FINISHED,
\* and execute then returns FINISHED or ends by the exception of
\* run_downsampling itself; progress_end is called exactly once on every exit
\* path, as the last call.
C11_NoSuccessAfterFailure ==
    /\ exec_result = "FINISHED" =>
          /\ Cardinality(CallsOf("write_model")) = 1
          /\ \A r \in CallsOf("render_camera_at_frame") :
                \A w \in CallsOf("write_model") : r < w
          /\ written # None
          /\ raised_in = "none"
          /\ Len(rendered) = Cardinality(DOMAIN written[1].images)
    /\ (Returned /\ cams = <<>>) =>
          /\ exec_result = IF raised_in = "mkdir" THEN "RAISED" ELSE "CANCELLED"
          /\ CallsOf("write_model") = {}
          /\ CallsOf("render_camera_at_frame") = {}
          /\ CallsOf("create_point3d_from_mesh") = {}
          /\ objects = entry[1].objects
    /\ CallsOf("run_downsampling") # {} =>
          /\ result = "FINISHED"
          /\ Returned
          /\ exec_result \in {"FINISHED", "RAISED"}
    /\ Cardinality(CallsOf("progress_end")) = IF Returned THEN 1 ELSE 0
    /\ Returned => calls[Len(calls)] = "progress_end"

\* C11's case: write_model raised after two renders and execute has ended.
C11_Witness ==
    /\ Returned
    /\ raised_in = "write"
    /\ Cardinality(CallsOf("render_camera_at_frame")) >= 2
    /\ exec_result = "RAISED"
    /\ CallsOf("run_downsampling") = {}
\* C12: once export_dataset has finished, by a normal return or by an exception
\* of a render or of write_model, scene.frame_current and scene.camera have
\* their values of entry, and so has every camera's rotation_mode.
C12_SceneStateRestored ==
    EndedAfterSetup =>
        /\ frame_current = entry[1].frame_current
        /\ scene_camera = entry[1].scene_camera
        /\ \A c \in DOMAIN cams : cams[c].rotation_mode = entry[1].cams[c].rotation_mode

\* C13: when setup_point_cloud_modifiers looks up the modifier of a mesh, also
\* of one whose stack holds a modifier type without node group or a
\* geometry-nodes modifier whose node group is unset, get_pc_gen_modifier
\* returns the PointCloudGeneration modifier if there is one and None if not,
\* and does not raise: no export ends by an exception of the setup.
C13_LookupTolerant ==
    /\ (pc = "setup" /\ oi <= Len(objects) /\ objects[oi].type = "MESH") =>
          LET found == get_pc_gen_modifier(objects[oi])
              pcg == PCGModifiers(objects[oi])
          IN /\ found.kind # "raise"
             /\ pcg = {} => found.kind = "none"
             /\ pcg # {} => found.kind = "found" /\ found.idx \in pcg
    /\ raised_in # "setup"

\* The meshes that setup_point_cloud_modifiers samples: those on which the
\* lookup finds the modifier.
SampledMeshes ==
    {i \in DOMAIN objects :
        objects[i].type = "MESH" /\ get_pc_gen_modifier(objects[i]).kind = "found"}

\* The modifier of a sampled mesh.
SampledModifier(i) == objects[i].modifiers[get_pc_gen_modifier(objects[i]).idx]

\* C15: all point sampling is done before the first render; a mesh is sampled
\* while its PointCloudGeneration modifier has show_viewport and show_render
\* true and its Preview input (where the node group has one) false; at every
\* render call every sampled PointCloudGeneration modifier has show_viewport
\* and show_render false.
C15_SamplingBeforeRender ==
    /\ \A k \in CallsOf("create_point3d_from_mesh") :
          \A r \in CallsOf("render_camera_at_frame") : k < r
    /\ pc = "sample" =>
          /\ oi \in SampledMeshes
          /\ SampledModifier(oi).show_viewport
          /\ SampledModifier(oi).show_render
          /\ HasPreviewInput(SampledModifier(oi)) => SampledModifier(oi).preview = Some(FALSE)
          /\ CallsOf("render_camera_at_frame") = {}
    /\ pc = "render" =>
          /\ oi > Len(objects)
          /\ Cardinality(CallsOf("create_point3d_from_mesh")) = Cardinality(SampledMeshes)
          /\ \A i \in SampledMeshes :
                /\ ~SampledModifier(i).show_viewport
                /\ ~SampledModifier(i).show_render

\* C15's case: a render is about to be called after an earlier one, two meshes
\* were sampled, and one of them had its modifier shown at entry.
C15_Witness ==
    /\ pc = "render"
    /\ Len(rendered) >= 1
    /\ Cardinality(SampledMeshes) = 2
    /\ \E i \in SampledMeshes :
          LET before == entry[1].objects[i].modifiers[get_pc_gen_modifier(objects[i]).idx]
          IN before.show_viewport /\ before.show_render /\ before.preview = None


(***************************************************************************)
(* Properties of get_camera_pose (SpecPose).                               *)
(***************************************************************************)
PoseDone == pc = "pose_done"

\* The host quaternion and position of the call, and what it returned.
HostQ == fn_in[1].rotation_quaternion
HostP == fn_in[1].location
Qvec == fn_out[1].pose.qvec
Tvec == fn_out[1].pose.tvec

\* C4, as claimed: qvec = (w', x', y', z') with (x', y', z', w') = (x, w, z, -y)
\* for the host components (x, y, z, w).
C4_RemapAsClaimed ==
    PoseDone =>
        LET xp == HostQ.x
            yp == HostQ.w
            zp == HostQ.z
            wp == -HostQ.y
        IN Qvec = <<wp, xp, yp, zp>>

\* C4, amended: qvec = (w', x', y', z') = (x, w, z, -y) for the host components
\* (x, y, z, w): the returned 4-vector is this fixed signed permutation.
C4_Remap ==
    PoseDone => Qvec = <<HostQ.x, HostQ.w, HostQ.z, -HostQ.y>>

\* C4's case: a host quaternion none of whose components is zero.
C4_Witness ==
    /\ PoseDone
    /\ HostQ.w # 0 /\ HostQ.x # 0 /\ HostQ.y # 0 /\ HostQ.z # 0
    /\ HostQ.w # HostQ.x

\* R(q) for q = (w, x, y, z) of norm QDen, by the textbook formula, its
\* entries scaled by QDen^2.
RotationMatrix(q) ==
    LET w == q[1]
        x == q[2]
        y == q[3]
        z == q[4]
    IN << << w*w + x*x - y*y - z*z, 2*x*y - 2*w*z, 2*x*z + 2*w*y >>,
          << 2*x*y + 2*w*z, w*w - x*x + y*y - z*z, 2*y*z - 2*w*x >>,
          << 2*x*z - 2*w*y, 2*y*z + 2*w*x, w*w - x*x - y*y + z*z >> >>

Transpose(m) == [i \in 1..3 |-> [j \in 1..3 |-> m[j][i]]]

\* C5: for every unit host rotation and every camera position p the returned
\* pair satisfies R(qvec) p + tvec = 0 and -R(qvec)^T tvec = p.  (In the
\* model's scale: R and tvec carry a factor QDen^2 each.)
C5_InverseConsistency ==
    PoseDone =>
        LET R == RotationMatrix(Qvec)
            Rp == MatVec(R, HostP)
            back == MatVec(Transpose(R), Tvec)
            s == QDen * QDen * QDen * QDen
        IN /\ \A k \in 1..3 : Rp[k] + Tvec[k] = 0
           /\ \A k \in 1..3 : -back[k] = s * HostP[k]

\* C5's case: a rotation about no coordinate axis and a position off every
\* coordinate plane.
C5_Witness ==
    /\ PoseDone
    /\ HostQ.w # 0 /\ HostQ.x # 0 /\ HostQ.y # 0 /\ HostQ.z # 0
    /\ HostP[1] # 0 /\ HostP[2] # 0 /\ HostP[3] # 0
    /\ HostP[1] # HostP[2]

IdentityAtOrigin ==
    /\ HostQ = [w |-> QDen, x |-> 0, y |-> 0, z |-> 0]
    /\ HostP = <<0, 0, 0>>

\* C6, as claimed: the identity rotation at the origin gives a zero tvec and
\* the quaternion of a -90 degree rotation about X: a non-zero scalar part, an
\* X part of the opposite sign and the same size, no Y or Z part.
C6_FixedPointAsClaimed ==
    (PoseDone /\ IdentityAtOrigin) =>
        /\ Tvec = <<0, 0, 0>>
        /\ Qvec[1] # 0
        /\ Qvec[2] = -Qvec[1]
        /\ Qvec[3] = 0
        /\ Qvec[4] = 0

\* C6, amended: the identity rotation at the origin gives a zero tvec and
\* qvec = (0, 1, 0, 0), a 180 degree rotation about X: a zero scalar part and
\* only an X vector part.
C6_FixedPoint ==
    (PoseDone /\ IdentityAtOrigin) =>
        /\ Tvec = <<0, 0, 0>>
        /\ Qvec = <<0, QDen, 0, 0>>

\* C6's case: the identity rotation at the origin has been converted.
C6_Witness == PoseDone /\ IdentityAtOrigin

(***************************************************************************)
(* Properties of create_point3d_from_mesh (SpecPoints).                    *)
(***************************************************************************)
PointsDone == pc = "points_done"

\* The attributes of the call's evaluated mesh.
InAttrs == fn_in[1].eval_attributes

\* The position samples of the call, <<>> when there is no position attribute.
InPositions ==
    LET idx == {a \in DOMAIN InAttrs : InAttrs[a].name = S_position}
    IN IF idx = {} THEN <<>> ELSE InAttrs[CHOOSE a \in idx : TRUE].data

\* The mesh has a position attribute.
InHasPosition == \E a \in DOMAIN InAttrs : InAttrs[a].name = S_position

\* The entries of the FLOAT_COLOR attribute the samples take their colour
\* from (the first one), <<>> when there is none.
InColours ==
    LET idx == {a \in DOMAIN InAttrs : InAttrs[a].data_type = "FLOAT_COLOR"}
    IN IF idx = {} THEN <<>>
       ELSE InAttrs[CHOOSE a \in idx : \A b \in idx : a <= b].data

\* floor(a / b) for b > 0.
Floor(a, b) == a \div b

Clamp(v, lo, hi) == IF v < lo THEN lo ELSE IF v > hi THEN hi ELSE v

\* floor(value * 255) clamped to [0, 255], for the channel value c / ColDen.
SpecQuantise(c) == Clamp(Floor(c * 255, ColDen), 0, 255)

\* C7: for every sampled point and every colour value, also with channels
\* above 1.0 or below 0.0, each rgb channel of the Point3D is an integer in
\* [0,255], equal to floor(value*255) clamped to that range.
C7_ColourRange ==
    PointsDone =>
        \A k \in DOMAIN fn_out[1] :
            /\ \A ch \in 1..3 : fn_out[1][k].rgb[ch] \in 0..255
            /\ k <= Len(InColours) =>
                  \A ch \in 1..3 : fn_out[1][k].rgb[ch] = SpecQuantise(InColours[k][ch])

\* C8: a mesh with n position samples gives n records in sample order with
\* ids 1..n, error 0 and empty tracks; record k is grey (128,128,128) when
\* there is no FLOAT_COLOR attribute or it has fewer than k entries, and the
\* quantised k-th colour otherwise (red gives (255,0,0)); a mesh without a
\* position attribute gives the empty list.
C8_PointSamplingMap ==
    PointsDone =>
        /\ Len(fn_out[1]) = Len(InPositions)
        /\ ~InHasPosition => fn_out[1] = <<>>
        /\ \A k \in DOMAIN fn_out[1] :
              LET p3d == fn_out[1][k]
              IN /\ p3d.id = k
                 /\ p3d.xyz = WorldCo(fn_in[1].matrix_world, InPositions[k])
                 /\ p3d.error = 0
                 /\ p3d.image_ids = <<>>
                 /\ p3d.point2D_idxs = <<>>
                 /\ k > Len(InColours) => p3d.rgb = <<128, 128, 128>>
                 /\ k <= Len(InColours) =>
                       p3d.rgb = <<SpecQuantise(InColours[k][1]),
                                   SpecQuantise(InColours[k][2]),
                                   SpecQuantise(InColours[k][3])>>
                 /\ (k <= Len(InColours) /\ InColours[k] = <<ColDen, 0, 0, ColDen>>) =>
                       p3d.rgb = <<255, 0, 0>>

(***************************************************************************)
(* Properties of the apply_modifier operator (SpecApply).                  *)
(***************************************************************************)
\* The blocks of a collection that bear a name.
BlocksNamed(collection, name) == {i \in DOMAIN collection : collection[i] = name}

\* C14: after one or more executions of apply_modifier on a selection there is
\* exactly one node group named PointCloudGeneration and exactly one material
\* named M_Point, every selected mesh has exactly one geometry-nodes modifier
\* bound to that node group and every other selected object has none; an
\* execution after the first adds no node group, no material and no modifier.
C14_ApplyIdempotent ==
    /\ [](applied >= 1 =>
            /\ Cardinality(BlocksNamed(GroupNames(node_groups), PCGName)) = 1
            /\ Cardinality(BlocksNamed(materials, M_Point)) = 1
            /\ \A i \in DOMAIN selected_objects :
                  LET obj == selected_objects[i]
                      bound == {m \in PCGModifiers(obj) : obj.modifiers[m].type = "NODES"}
                  IN /\ obj.type = "MESH" => Cardinality(bound) = 1
                     /\ obj.type # "MESH" => PCGModifiers(obj) = {})
    /\ [][applied >= 1 =>
            /\ node_groups' = node_groups
            /\ materials' = materials
            /\ \A i \in DOMAIN selected_objects :
                  selected_objects'[i].modifiers = selected_objects[i].modifiers]_vars

=============================================================================
